---- MODULE Spec2Model ----
(***************************************************************************)
(* The circular doubly linked list with a sentinel (class DoubleList) as a *)
(* state machine over an explicit heap of Node objects.                    *)
(*                                                                         *)
(* A pointer is a heap address in 1..MaxNodes, or NULL.  The heap holds    *)
(* the three fields of every Node and an allocation bit; operator new      *)
(* returns any address that is not currently allocated, operator delete    *)
(* clears the bit.  Each public method of DoubleList is one action; its    *)
(* loops are unrolled by recursive operators over the heap.                *)
(***************************************************************************)
EXTENDS Integers, Sequences, FiniteSets, TLC

\* Number of heap addresses (the sentinel takes one of them).
MaxNodes == 4

NULL == 0

\* Node(int id = -1): the value a default constructed Node (the sentinel) holds.
DefaultIndex == -1

Nodes == 1..MaxNodes

\* The values callers pass as a node's index: the sentinel's own value and
\* two of the values main() uses.
Values == {DefaultIndex, 2, 5}

VARIABLES
    head,    \* DoubleList::head
    prev,    \* Node::prev  of every address
    next,    \* Node::next  of every address
    index,   \* Node::index of every address
    mem,     \* mem[n]: address n is currently allocated
    fault,   \* "none", or the way an operation left defined behaviour
    alive,   \* the DoubleList object is constructed and not yet destroyed
    owned,   \* nodes allocated by the caller and not yet handed to the list
    last,    \* the most recent call: its name, argument, output and result
    snap,    \* what traverseList would have printed before the call(s) in last
    ins,     \* values inserted so far, while only insertEntry(value) was called
    pureIns, \* only insertEntry(value) (and queries) were called so far
    count,   \* inserts minus the nodes taken out by removeEntry and cleanList
    \* The singly linked list (class SingleList), a program of its own with
    \* its own heap.
    sl_head,  \* SingleList::head
    sl_next,  \* Node::next  of every address
    sl_index, \* Node::index of every address
    sl_mem,   \* sl_mem[n]: address n is currently allocated
    sl_fault, \* "none", or the way an operation left defined behaviour
    sl_alive, \* the SingleList object is constructed and not yet destroyed
    sl_owned, \* nodes allocated by the caller and not yet handed to the list
    sl_last,  \* the most recent call on the SingleList
    \* The hand-written smart pointers Auto_ptr1 .. Auto_ptr4 and the
    \* Resource objects they hold.
    ap_class, \* the class template the smart pointers are instances of
    ap_live,  \* ap_live[o]: smart pointer o is constructed and not destroyed
    ap_ptr,   \* m_ptr of every smart pointer
    res,      \* the state of every Resource: "unalloc", "live" or "deleted"
    ap_fault, \* "none", or the way an operation left defined behaviour
    ap_last   \* the most recent operation on smart pointers

dlvars == <<head, prev, next, index, mem, fault, alive, owned, last, snap, ins, pureIns, count>>

slvars == <<sl_head, sl_next, sl_index, sl_mem, sl_fault, sl_alive, sl_owned, sl_last>>

apvars == <<ap_class, ap_live, ap_ptr, res, ap_fault, ap_last>>

vars == <<dlvars, slvars, apvars>>

----------------------------------------------------------------------------
(* The heap as one value, so that the methods are functions on heaps.      *)
(* freed lists the addresses a call has passed to operator delete, in the  *)
(* order of the delete expressions; it is empty when a call starts.        *)
(* calls lists the calls of list_delete a call has made: the two arguments *)
(* and, as they were at the call, the entry's prev and the next of the     *)
(* node passed as prev.                                                     *)

Heap ==
    [prev |-> prev, next |-> next, index |-> index, mem |-> mem, fault |-> fault,
     freed |-> <<>>, calls |-> <<>>]

\* The fault raised by dereferencing pointer p in heap H ("none": p is valid).
Deref(H, p) ==
    IF H.fault # "none" THEN H.fault
    ELSE IF p = NULL THEN "null_deref"
    ELSE IF ~H.mem[p] THEN "use_after_free"
    ELSE "none"

Fail(H, f) == [H EXCEPT !.fault = f]

\* new Node(id): the constructor writes all three fields of address e.
NewNodeAt(H, e, id) ==
    [H EXCEPT !.prev[e] = NULL, !.next[e] = NULL, !.index[e] = id, !.mem[e] = TRUE]

\* delete p: the object at p ceases to exist, so its storage holds no Node
\* until operator new hands the address out again (any later access through
\* a pointer to it is the fault "use_after_free", see Deref).
Delete(H, p) ==
    IF H.fault # "none" THEN H
    ELSE IF p = NULL THEN H
    ELSE IF ~H.mem[p] THEN Fail(H, "double_free")
    ELSE [H EXCEPT !.prev[p] = NULL, !.next[p] = NULL, !.index[p] = DefaultIndex,
                   !.mem[p] = FALSE, !.freed = Append(@, p)]

----------------------------------------------------------------------------
(* Private helpers of DoubleList.                                          *)

isEnd(hd, entry) == entry = hd

\* isEmpty with the end test of a null-terminated list.
isEmpty_null(H, hd) == H.next[hd] = NULL

isEmpty(H, hd) == H.next[hd] = hd

\* list_add without the statement next->prev = entry.
list_add_noBackLink(H, hd, entry) ==
    IF Deref(H, hd) # "none" THEN Fail(H, Deref(H, hd))
    ELSE IF Deref(H, entry) # "none" THEN Fail(H, Deref(H, entry))
    ELSE
        LET nxt == H.next[hd]
            H1  == [H  EXCEPT !.next[entry] = nxt]
            H2  == [H1 EXCEPT !.prev[entry] = hd]
        IN  [H2 EXCEPT !.next[hd] = entry]

\* list_add that splices the entry in before head instead of after it.
list_add_tail(H, hd, entry) ==
    IF Deref(H, hd) # "none" THEN Fail(H, Deref(H, hd))
    ELSE IF Deref(H, entry) # "none" THEN Fail(H, Deref(H, entry))
    ELSE
        LET prv == H.prev[hd]
            H1  == [H  EXCEPT !.prev[entry] = prv]
            H2  == [H1 EXCEPT !.next[entry] = hd]
        IN  IF Deref(H2, prv) # "none" THEN Fail(H2, Deref(H2, prv))
            ELSE
                LET H3 == [H2 EXCEPT !.next[prv] = entry]
                IN  [H3 EXCEPT !.prev[hd] = entry]

\* list_add with one more statement, head->prev = entry.
list_add_extraWrite(H, hd, entry) ==
    IF Deref(H, hd) # "none" THEN Fail(H, Deref(H, hd))
    ELSE IF Deref(H, entry) # "none" THEN Fail(H, Deref(H, entry))
    ELSE
        LET nxt == H.next[hd]
            H1  == [H  EXCEPT !.next[entry] = nxt]
            H2  == [H1 EXCEPT !.prev[entry] = hd]
        IN  IF Deref(H2, nxt) # "none" THEN Fail(H2, Deref(H2, nxt))
            ELSE
                LET H3 == [H2 EXCEPT !.prev[nxt] = entry]
                    H4 == [H3 EXCEPT !.next[hd] = entry]
                IN  [H4 EXCEPT !.prev[hd] = entry]

\* list_add without the statement head->next = entry.
list_add_noHeadLink(H, hd, entry) ==
    IF Deref(H, hd) # "none" THEN Fail(H, Deref(H, hd))
    ELSE IF Deref(H, entry) # "none" THEN Fail(H, Deref(H, entry))
    ELSE
        LET nxt == H.next[hd]
            H1  == [H  EXCEPT !.next[entry] = nxt]
            H2  == [H1 EXCEPT !.prev[entry] = hd]
        IN  IF Deref(H2, nxt) # "none" THEN Fail(H2, Deref(H2, nxt))
            ELSE [H2 EXCEPT !.prev[nxt] = entry]

list_add(H, hd, entry) ==
    IF Deref(H, hd) # "none" THEN Fail(H, Deref(H, hd))
    ELSE IF Deref(H, entry) # "none" THEN Fail(H, Deref(H, entry))
    ELSE
        LET nxt == H.next[hd]
            H1  == [H  EXCEPT !.next[entry] = nxt]
            H2  == [H1 EXCEPT !.prev[entry] = hd]
        IN  IF Deref(H2, nxt) # "none" THEN Fail(H2, Deref(H2, nxt))
            ELSE
                LET H3 == [H2 EXCEPT !.prev[nxt] = entry]
                IN  [H3 EXCEPT !.next[hd] = entry]

\* list_delete without the statement next->prev = prev.
list_delete_noBack(H, prv, entry) ==
    IF Deref(H, entry) # "none" THEN Fail(H, Deref(H, entry))
    ELSE IF Deref(H, prv) # "none" THEN Fail(H, Deref(H, prv))
    ELSE
        LET nxt == H.next[entry]
            H1  == [H EXCEPT !.next[prv] = nxt]
            H3  == [H1 EXCEPT !.next[entry] = NULL]
            H4  == [H3 EXCEPT !.prev[entry] = NULL]
        IN  Delete(H4, entry)

\* list_delete that frees the entry without unlinking it.
list_delete_noUnlink(H, prv, entry) ==
    IF Deref(H, entry) # "none" THEN Fail(H, Deref(H, entry))
    ELSE Delete(H, entry)

list_delete(H, prv, entry) ==
    IF Deref(H, entry) # "none" THEN Fail(H, Deref(H, entry))
    ELSE IF Deref(H, prv) # "none" THEN Fail(H, Deref(H, prv))
    ELSE
        LET nxt == H.next[entry]
            arg == [prv |-> prv, entry |-> entry,
                    entryPrev |-> H.prev[entry], prvNext |-> H.next[prv]]
            H0  == [H EXCEPT !.calls = Append(@, arg)]
            H1  == [H0 EXCEPT !.next[prv] = nxt]
        IN  IF Deref(H1, nxt) # "none" THEN Fail(H1, Deref(H1, nxt))
            ELSE
                LET H2 == [H1 EXCEPT !.prev[nxt] = prv]
                    H3 == [H2 EXCEPT !.next[entry] = NULL]
                    H4 == [H3 EXCEPT !.prev[entry] = NULL]
                IN  Delete(H4, entry)

----------------------------------------------------------------------------
(* Loops.  fuel counts the iterations left before the loop is declared     *)
(* non-terminating: a loop over a chain of at most MaxNodes addresses      *)
(* that has not ended after MaxNodes + 1 iterations never ends.            *)

Fuel == MaxNodes + 1

\* The loop of cleanList with the end test on cur->next: it stops one short.
RECURSIVE cleanLoop_short(_, _, _, _, _)
cleanLoop_short(H, hd, prv, cur, fuel) ==
    IF H.fault # "none" THEN H
    ELSE IF isEnd(hd, H.next[cur]) THEN H
    ELSE IF fuel = 0 THEN Fail(H, "hang")
    ELSE
        LET H1 == list_delete(H, prv, cur)
        IN  IF H1.fault # "none" THEN H1
            ELSE cleanLoop_short(H1, hd, hd, H1.next[hd], fuel - 1)

\* The loop of cleanList written with if in place of while.
cleanLoop_once(H, hd, prv, cur, fuel) ==
    IF H.fault # "none" THEN H
    ELSE IF isEnd(hd, cur) THEN H
    ELSE list_delete(H, prv, cur)

RECURSIVE cleanLoop(_, _, _, _, _)
cleanLoop(H, hd, prv, cur, fuel) ==
    IF H.fault # "none" THEN H
    ELSE IF isEnd(hd, cur) THEN H
    ELSE IF fuel = 0 THEN Fail(H, "hang")
    ELSE
        LET H1 == list_delete(H, prv, cur)
        IN  IF H1.fault # "none" THEN H1
            ELSE cleanLoop(H1, hd, hd, H1.next[hd], fuel - 1)

cleanList(H, hd) ==
    IF Deref(H, hd) # "none" THEN Fail(H, Deref(H, hd))
    ELSE IF isEmpty(H, hd) THEN H
    ELSE cleanLoop(H, hd, hd, H.next[hd], Fuel)

\* The loop of removeEntry without the break: it goes on after a match.
RECURSIVE removeLoop_all(_, _, _, _, _, _)
removeLoop_all(H, hd, prv, cur, id, fuel) ==
    IF isEnd(hd, cur) THEN [heap |-> H, cur |-> cur]
    ELSE IF fuel = 0 THEN [heap |-> Fail(H, "hang"), cur |-> cur]
    ELSE IF Deref(H, cur) # "none" THEN [heap |-> Fail(H, Deref(H, cur)), cur |-> cur]
    ELSE IF H.index[cur] = id
         THEN removeLoop_all(list_delete(H, prv, cur), hd, prv, H.next[cur], id, fuel - 1)
         ELSE removeLoop_all(H, hd, cur, H.next[cur], id, fuel - 1)

\* The loop of removeEntry with the comparison negated.
RECURSIVE removeLoop_neq(_, _, _, _, _, _)
removeLoop_neq(H, hd, prv, cur, id, fuel) ==
    IF isEnd(hd, cur) THEN [heap |-> H, cur |-> cur]
    ELSE IF fuel = 0 THEN [heap |-> Fail(H, "hang"), cur |-> cur]
    ELSE IF Deref(H, cur) # "none" THEN [heap |-> Fail(H, Deref(H, cur)), cur |-> cur]
    ELSE IF H.index[cur] # id THEN [heap |-> list_delete(H, prv, cur), cur |-> cur]
    ELSE removeLoop_neq(H, hd, cur, H.next[cur], id, fuel - 1)

\* The loop of removeEntry that steps cur to the next node after a match.
RECURSIVE removeLoop_advance(_, _, _, _, _, _)
removeLoop_advance(H, hd, prv, cur, id, fuel) ==
    IF isEnd(hd, cur) THEN [heap |-> H, cur |-> cur]
    ELSE IF fuel = 0 THEN [heap |-> Fail(H, "hang"), cur |-> cur]
    ELSE IF Deref(H, cur) # "none" THEN [heap |-> Fail(H, Deref(H, cur)), cur |-> cur]
    ELSE IF H.index[cur] = id THEN [heap |-> list_delete(H, prv, cur), cur |-> H.next[cur]]
    ELSE removeLoop_advance(H, hd, cur, H.next[cur], id, fuel - 1)

\* The loop of removeEntry without the statement prev = cur.
RECURSIVE removeLoop_prevStale(_, _, _, _, _, _)
removeLoop_prevStale(H, hd, prv, cur, id, fuel) ==
    IF isEnd(hd, cur) THEN [heap |-> H, cur |-> cur]
    ELSE IF fuel = 0 THEN [heap |-> Fail(H, "hang"), cur |-> cur]
    ELSE IF Deref(H, cur) # "none" THEN [heap |-> Fail(H, Deref(H, cur)), cur |-> cur]
    ELSE IF H.index[cur] = id THEN [heap |-> list_delete(H, prv, cur), cur |-> cur]
    ELSE removeLoop_prevStale(H, hd, prv, H.next[cur], id, fuel - 1)

\* The loop of removeEntry without the statement cur = cur->next.
RECURSIVE removeLoop_stuck(_, _, _, _, _, _)
removeLoop_stuck(H, hd, prv, cur, id, fuel) ==
    IF isEnd(hd, cur) THEN [heap |-> H, cur |-> cur]
    ELSE IF fuel = 0 THEN [heap |-> Fail(H, "hang"), cur |-> cur]
    ELSE IF Deref(H, cur) # "none" THEN [heap |-> Fail(H, Deref(H, cur)), cur |-> cur]
    ELSE IF H.index[cur] = id THEN [heap |-> list_delete(H, prv, cur), cur |-> cur]
    ELSE removeLoop_stuck(H, hd, cur, cur, id, fuel - 1)

\* The result is the heap, the final value of cur and whether the
\* diagnostic "Cannot find index" is printed.
RECURSIVE removeLoop(_, _, _, _, _, _)
removeLoop(H, hd, prv, cur, id, fuel) ==
    IF isEnd(hd, cur) THEN [heap |-> H, cur |-> cur]
    ELSE IF fuel = 0 THEN [heap |-> Fail(H, "hang"), cur |-> cur]
    ELSE IF Deref(H, cur) # "none" THEN [heap |-> Fail(H, Deref(H, cur)), cur |-> cur]
    ELSE IF H.index[cur] = id THEN [heap |-> list_delete(H, prv, cur), cur |-> cur]
    ELSE removeLoop(H, hd, cur, H.next[cur], id, fuel - 1)

\* removeEntry that scans from the tail, following prev.
RECURSIVE removeLoop_back(_, _, _, _, _)
removeLoop_back(H, hd, cur, id, fuel) ==
    IF isEnd(hd, cur) THEN [heap |-> H, cur |-> cur]
    ELSE IF fuel = 0 THEN [heap |-> Fail(H, "hang"), cur |-> cur]
    ELSE IF Deref(H, cur) # "none" THEN [heap |-> Fail(H, Deref(H, cur)), cur |-> cur]
    ELSE IF H.index[cur] = id THEN [heap |-> list_delete(H, H.prev[cur], cur), cur |-> cur]
    ELSE removeLoop_back(H, hd, H.prev[cur], id, fuel - 1)

removeEntry_back(H, hd, id) ==
    IF Deref(H, hd) # "none" THEN [heap |-> Fail(H, Deref(H, hd)), msg |-> FALSE]
    ELSE
        LET r == removeLoop_back(H, hd, H.prev[hd], id, Fuel)
        IN  [heap |-> r.heap, msg |-> r.heap.fault = "none" /\ isEnd(hd, r.cur)]

\* removeEntry with a do-while loop: the scan looks at the sentinel first.
removeEntry_doWhile(H, hd, id) ==
    IF Deref(H, hd) # "none" THEN [heap |-> Fail(H, Deref(H, hd)), msg |-> FALSE]
    ELSE IF H.index[hd] = id
    THEN [heap |-> list_delete(H, H.prev[hd], hd), msg |-> FALSE]
    ELSE
        LET r == removeLoop(H, hd, hd, H.next[hd], id, Fuel)
        IN  [heap |-> r.heap, msg |-> r.heap.fault = "none" /\ isEnd(hd, r.cur)]

\* After the loop, isEnd(cur) compares the address held in cur with head;
\* when the loop ended by break, cur holds the address of the deleted node,
\* which is not the address of the sentinel.
removeEntry(H, hd, id) ==
    IF Deref(H, hd) # "none" THEN [heap |-> Fail(H, Deref(H, hd)), msg |-> FALSE]
    ELSE
        LET r == removeLoop(H, hd, hd, H.next[hd], id, Fuel)
        IN  [heap |-> r.heap, msg |-> r.heap.fault = "none" /\ isEnd(hd, r.cur)]

\* traverseList that starts at head->prev and follows prev.
RECURSIVE traverseLoop_back(_, _, _, _, _)
traverseLoop_back(H, hd, each, acc, fuel) ==
    IF isEnd(hd, each) THEN [out |-> acc, fault |-> H.fault]
    ELSE IF fuel = 0 THEN [out |-> acc, fault |-> "hang"]
    ELSE IF Deref(H, each) # "none" THEN [out |-> acc, fault |-> Deref(H, each)]
    ELSE traverseLoop_back(H, hd, H.prev[each], Append(acc, H.index[each]), fuel - 1)

traverseList_back(H, hd) ==
    IF Deref(H, hd) # "none" THEN [out |-> <<>>, fault |-> Deref(H, hd)]
    ELSE traverseLoop_back(H, hd, H.prev[hd], <<>>, Fuel)

\* The result is the sequence of values printed between "head<-> " and "end".
RECURSIVE traverseLoop(_, _, _, _, _)
traverseLoop(H, hd, each, acc, fuel) ==
    IF isEnd(hd, each) THEN [out |-> acc, fault |-> H.fault]
    ELSE IF fuel = 0 THEN [out |-> acc, fault |-> "hang"]
    ELSE IF Deref(H, each) # "none" THEN [out |-> acc, fault |-> Deref(H, each)]
    ELSE traverseLoop(H, hd, H.next[each], Append(acc, H.index[each]), fuel - 1)

traverseList(H, hd) ==
    IF Deref(H, hd) # "none" THEN [out |-> <<>>, fault |-> Deref(H, hd)]
    ELSE traverseLoop(H, hd, H.next[hd], <<>>, Fuel)

\* The constructor of the null-terminated list: the sentinel is not linked
\* to itself.
DoubleListCtor_noSelfLink(H, h) == NewNodeAt(H, h, DefaultIndex)

\* DoubleList(): head(new Node), then the sentinel is linked to itself.
DoubleListCtor(H, h) ==
    LET H1 == NewNodeAt(H, h, DefaultIndex)
        H2 == [H1 EXCEPT !.next[h] = h]
    IN  [H2 EXCEPT !.prev[h] = h]

\* The destructor without its call of cleanList.
DoubleListDtor_noClean(H, hd) ==
    LET H2 == [H  EXCEPT !.next[hd] = NULL]
        H3 == [H2 EXCEPT !.prev[hd] = NULL]
    IN  Delete(H3, hd)

\* The destructor with delete head ahead of cleanList().
DoubleListDtor_headFirst(H, hd) ==
    LET H2 == [H  EXCEPT !.next[hd] = NULL]
        H3 == [H2 EXCEPT !.prev[hd] = NULL]
    IN  cleanList(Delete(H3, hd), hd)

\* ~DoubleList()
DoubleListDtor(H, hd) ==
    LET H1 == cleanList(H, hd)
    IN  IF H1.fault # "none" THEN H1
        ELSE
            LET H2 == [H1 EXCEPT !.next[hd] = NULL]
                H3 == [H2 EXCEPT !.prev[hd] = NULL]
            IN  Delete(H3, hd)

\* insertEntry(int) that keeps the values of the list distinct: a value that
\* is already there is not inserted again.
insertEntry_unique(H, hd, e, id) ==
    IF \E i \in 1..Len(traverseList(H, hd).out) : traverseList(H, hd).out[i] = id
    THEN H
    ELSE list_add(NewNodeAt(H, e, id), hd, e)

\* insertEntry(int index): e is the address operator new returns.
insertEntry(H, hd, e, id) == list_add(NewNodeAt(H, e, id), hd, e)

\* insertEntry(Node*) that leaves the list alone when the node is linked.
insertEntryNode_guarded(H, hd, entry) ==
    IF Deref(H, entry) # "none" THEN Fail(H, Deref(H, entry))
    ELSE IF H.next[entry] # NULL \/ H.prev[entry] # NULL THEN H
    ELSE list_add(H, hd, entry)

\* insertEntry(Node*) that splices the node in before head.
insertEntryNode_tail(H, hd, entry) == list_add_tail(H, hd, entry)

\* insertEntry(Node *entry)
insertEntryNode(H, hd, entry) == list_add(H, hd, entry)

----------------------------------------------------------------------------
(* The state machine.                                                      *)

FreeAddrs == {n \in Nodes : ~mem[n]}

\* The values traverseList prints in the current state.
Traversal == traverseList(Heap, head).out

\* A call as the caller sees it: op and arg name it, out is the sequence of
\* values traverseList printed, msg tells that removeEntry printed "Cannot
\* find index", ret is the value isEmpty returned.  follows marks a call that
\* comes right after its counterpart: removeEntry(v) right after
\* insertEntry(v), traverseList right after cleanList.
Call(op, arg, out, msg, ret, follows) ==
    [op |-> op, arg |-> arg, out |-> out, msg |-> msg, ret |-> ret, follows |-> follows]

SetHeap(H) ==
    /\ prev' = H.prev
    /\ next' = H.next
    /\ index' = H.index
    /\ mem' = H.mem
    /\ fault' = H.fault

EmptyHeap ==
    [prev |-> [n \in Nodes |-> NULL], next |-> [n \in Nodes |-> NULL],
     index |-> [n \in Nodes |-> DefaultIndex], mem |-> [n \in Nodes |-> FALSE],
     fault |-> "none", freed |-> <<>>, calls |-> <<>>]

\* The program with the SingleList has not been started.
SlIdle ==
    /\ sl_head = NULL
    /\ sl_next = [n \in Nodes |-> NULL]
    /\ sl_index = [n \in Nodes |-> DefaultIndex]
    /\ sl_mem = [n \in Nodes |-> FALSE]
    /\ sl_fault = "none"
    /\ sl_alive = FALSE
    /\ sl_owned = {}
    /\ sl_last = "none"

\* The program with the smart pointers has not been started.
ApIdle ==
    /\ ap_class = "none"
    /\ ap_live = <<>>
    /\ ap_ptr = <<>>
    /\ res = <<>>
    /\ ap_fault = "none"
    /\ ap_last = "none"

\* DoubleList slist;  On the empty heap all addresses are alike, so the
\* sentinel is taken to be allocated at the first one.
DlInit ==
    \E h \in {NULL + 1} :
        LET H == DoubleListCtor(EmptyHeap, h)
        IN  /\ head = h
            /\ prev = H.prev
            /\ next = H.next
            /\ index = H.index
            /\ mem = H.mem
            /\ fault = H.fault
            /\ alive = TRUE
            /\ owned = {}
            /\ last = Call("DoubleList", DefaultIndex, <<>>, FALSE, FALSE, FALSE)
            /\ snap = <<>>
            /\ ins = <<>>
            /\ pureIns = TRUE
            /\ count = 0

\* The program of main(): the list is constructed, the other programs are
\* not running.
Init == DlInit /\ SlIdle /\ ApIdle

Usable == alive /\ fault = "none"

\* slist.insertEntry(v)
InsertEntryInt ==
    /\ Usable
    /\ \E v \in Values, e \in FreeAddrs :
        /\ SetHeap(insertEntry(Heap, head, e, v))
        /\ last' = Call("insertEntry", v, <<>>, FALSE, FALSE, FALSE)
        /\ snap' = Traversal
        /\ ins' = IF pureIns THEN Append(ins, v) ELSE <<>>
        /\ count' = count + 1
    /\ UNCHANGED <<head, alive, owned, pureIns>>
    /\ UNCHANGED <<slvars, apvars>>

\* Node *n = new Node(v);  the caller allocates a node and keeps it.
NewNode ==
    /\ Usable
    /\ \E v \in Values, e \in FreeAddrs :
        /\ SetHeap(NewNodeAt(Heap, e, v))
        /\ owned' = owned \cup {e}
        /\ last' = Call("newNode", DefaultIndex, <<>>, FALSE, FALSE, FALSE)
    /\ snap' = <<>>
    /\ UNCHANGED <<head, alive, ins, pureIns, count>>
    /\ UNCHANGED <<slvars, apvars>>

\* slist.insertEntry(n) for a node n the caller holds and has not inserted.
InsertEntryNode ==
    /\ Usable
    /\ \E n \in owned :
        /\ SetHeap(insertEntryNode(Heap, head, n))
        /\ owned' = owned \ {n}
        /\ last' = Call("insertEntryNode", DefaultIndex, <<>>, FALSE, FALSE, FALSE)
    /\ snap' = <<>>
    /\ ins' = <<>>
    /\ pureIns' = FALSE
    /\ count' = count + 1
    /\ UNCHANGED <<head, alive>>
    /\ UNCHANGED <<slvars, apvars>>

\* slist.removeEntry(v)
RemoveEntry ==
    /\ Usable
    /\ \E v \in Values :
        LET r == removeEntry(Heap, head, v)
            undo == last.op = "insertEntry" /\ last.arg = v
        IN  /\ SetHeap(r.heap)
            /\ last' = Call("removeEntry", v, <<>>, r.msg, FALSE, undo)
            /\ snap' = IF undo THEN snap ELSE <<>>
            /\ count' = IF r.heap = Heap THEN count ELSE count - 1
    /\ ins' = <<>>
    /\ pureIns' = FALSE
    /\ UNCHANGED <<head, alive, owned>>
    /\ UNCHANGED <<slvars, apvars>>

\* slist.cleanList()
CleanList ==
    /\ Usable
    /\ SetHeap(cleanList(Heap, head))
    /\ last' = Call("cleanList", DefaultIndex, <<>>, FALSE, FALSE, FALSE)
    /\ snap' = Traversal
    /\ ins' = <<>>
    /\ pureIns' = FALSE
    /\ count' = 0
    /\ UNCHANGED <<head, alive, owned>>
    /\ UNCHANGED <<slvars, apvars>>

\* A traverseList that takes every node it prints out of the list.
TraverseList_drain ==
    /\ Usable
    /\ LET r == traverseList(Heap, head)
           clean == last.op = "cleanList"
       IN  /\ SetHeap(cleanList(Heap, head))
           /\ last' = Call("traverseList", DefaultIndex, r.out, FALSE, FALSE, clean)
           /\ snap' = IF clean THEN snap ELSE <<>>
    /\ UNCHANGED <<head, alive, owned, ins, pureIns, count>>
    /\ UNCHANGED <<slvars, apvars>>

\* slist.traverseList()
TraverseList ==
    /\ Usable
    /\ LET r == traverseList(Heap, head)
           clean == last.op = "cleanList"
       IN  /\ fault' = r.fault
           /\ last' = Call("traverseList", DefaultIndex, r.out, FALSE, FALSE, clean)
           /\ snap' = IF clean THEN snap ELSE <<>>
    /\ UNCHANGED <<head, prev, next, index, mem, alive, owned, ins, pureIns, count>>
    /\ UNCHANGED <<slvars, apvars>>

\* slist.isEmpty()
IsEmpty ==
    /\ Usable
    /\ last' = Call("isEmpty", DefaultIndex, <<>>, FALSE, isEmpty(Heap, head), FALSE)
    /\ snap' = <<>>
    /\ UNCHANGED <<head, prev, next, index, mem, fault, alive, owned, ins, pureIns, count>>
    /\ UNCHANGED <<slvars, apvars>>

\* slist goes out of scope.
Destructor ==
    /\ Usable
    /\ SetHeap(DoubleListDtor(Heap, head))
    /\ alive' = FALSE
    /\ last' = Call("~DoubleList", DefaultIndex, <<>>, FALSE, FALSE, FALSE)
    /\ snap' = Traversal
    /\ ins' = <<>>
    /\ UNCHANGED <<head, owned, pureIns, count>>
    /\ UNCHANGED <<slvars, apvars>>

Next ==
    \/ InsertEntryInt
    \/ NewNode
    \/ InsertEntryNode
    \/ RemoveEntry
    \/ CleanList
    \/ TraverseList
    \/ IsEmpty
    \/ Destructor

Spec == Init /\ [][Next]_vars

----------------------------------------------------------------------------
(* Vocabulary of the properties.                                           *)

Range(s) == {s[i] : i \in 1..Len(s)}

NoDup(s) == \A i, j \in 1..Len(s) : s[i] = s[j] => i = j

Reverse(s) == [i \in 1..Len(s) |-> s[Len(s) + 1 - i]]

\* s without its element at position k.
RemoveAt(s, k) == [i \in 1..(Len(s) - 1) |-> IF i < k THEN s[i] ELSE s[i + 1]]

\* The first position of s that holds v (v occurs in s).
FirstPos(s, v) == CHOOSE i \in 1..Len(s) : s[i] = v /\ \A j \in 1..(i - 1) : s[j] # v

\* The addresses met by following next from the sentinel's next, up to the
\* sentinel, a null pointer or MaxNodes addresses, whichever comes first.
RECURSIVE Walk(_, _, _, _, _)
Walk(H, hd, n, acc, k) ==
    IF n = hd \/ n = NULL \/ k = 0 THEN acc
    ELSE Walk(H, hd, H.next[n], Append(acc, n), k - 1)

ChainOf(H, hd) == Walk(H, hd, H.next[hd], <<>>, MaxNodes)

\* Following next from the sentinel comes back to the sentinel, through
\* allocated nodes only: a pointer to a deleted node is followed no further.
Closed(H, hd) ==
    LET c == ChainOf(H, hd)
    IN  /\ hd # NULL
        /\ H.mem[hd]
        /\ \A i \in 1..Len(c) : H.mem[c[i]]
        /\ hd = (IF c = <<>> THEN H.next[hd] ELSE H.next[c[Len(c)]])

ChainNodes == ChainOf(Heap, head)

\* The allocated nodes the list is responsible for, other than the sentinel.
LiveUser == {n \in Nodes : mem[n]} \ ({head} \cup owned)

Linked(H, n) ==
    /\ H.mem[n]
    /\ H.next[n] \in Nodes
    /\ H.prev[n] \in Nodes
    /\ H.next[H.prev[n]] = n
    /\ H.prev[H.next[n]] = n

----------------------------------------------------------------------------
(* Properties of DoubleList.                                               *)

\* C1: after construction and after any sequence of insertEntry(value),
\* insertEntry(unattached node), removeEntry(value) and cleanList calls, the
\* sentinel and all live nodes form one circular chain, and every node n of it
\* (the sentinel included) has n.prev.next = n and n.next.prev = n.
LinkInvariant ==
    /\ fault = "none"
    /\ alive =>
        /\ Closed(Heap, head)
        /\ Range(ChainNodes) = LiveUser
        /\ \A n \in {head} \cup Range(ChainNodes) : Linked(Heap, n)

LinkInvariantWitness ==
    /\ alive
    /\ last.op = "removeEntry"
    /\ ~last.msg
    /\ Len(ChainNodes) >= 2

\* C2: isEmpty() is true exactly when the list holds no live user node, that
\* is when the inserts minus the nodes taken out by removeEntry and cleanList
\* come to zero.
EmptyIffNoLiveNode ==
    alive =>
        /\ count = Cardinality(LiveUser)
        /\ isEmpty(Heap, head) <=> (count = 0)

EmptyIffNoLiveNodeWitness ==
    /\ alive
    /\ last.op = "removeEntry"
    /\ ~last.msg
    /\ isEmpty(Heap, head)
    /\ count = 0

\* C3: insertEntry(v) on a list whose traversal is S gives the traversal
\* v followed by S: the new node sits right after the sentinel and the old
\* nodes keep their order.
InsertAtHead ==
    [][last'.op = "insertEntry" =>
        /\ fault' = "none"
        /\ Traversal' = <<last'.arg>> \o Traversal
        /\ ChainNodes' = <<next'[head]>> \o ChainNodes]_vars

InsertAtHeadWitness ==
    /\ last.op = "insertEntry"
    /\ Len(Traversal) >= 3
    /\ Traversal[1] # Traversal[2]

\* C4: from the empty list, after N insertEntry(value) calls and no removal,
\* traverseList prints exactly N values, in reverse order of insertion.
ReverseOfInsertion ==
    (last.op = "traverseList" /\ pureIns) =>
        /\ Len(last.out) = Len(ins)
        /\ last.out = Reverse(ins)

ReverseOfInsertionWitness ==
    /\ last.op = "traverseList"
    /\ pureIns
    /\ Len(ins) >= 3
    /\ ins[1] # ins[3]

\* C5: when some live node holds v, removeEntry(v) unlinks and frees exactly
\* one node, the first one with value v met from the head; the traversal gets
\* shorter by one and all other nodes stay, in the same order.
RemoveFirstMatch ==
    [][(last'.op = "removeEntry" /\ last'.arg \in Range(Traversal)) =>
        LET k == FirstPos(Traversal, last'.arg)
        IN  /\ fault' = "none"
            /\ Traversal' = RemoveAt(Traversal, k)
            /\ Len(Traversal') = Len(Traversal) - 1
            /\ ChainNodes' = RemoveAt(ChainNodes, k)
            /\ {n \in Nodes : mem[n] /\ ~mem'[n]} = {ChainNodes[k]}
            /\ {n \in Nodes : ~mem[n] /\ mem'[n]} = {}]_vars

RemoveFirstMatchWitness ==
    /\ last.op = "removeEntry"
    /\ ~last.msg
    /\ last.arg \in Range(Traversal)
    /\ Len(Traversal) >= 2
    /\ Traversal[1] # last.arg

\* C6: when no live node holds v (the empty list included), removeEntry(v)
\* frees nothing and changes no link and no value, so the traversal is the
\* same before and after.
RemoveAbsentKeepsList ==
    [][(last'.op = "removeEntry" /\ last'.arg \notin Range(Traversal)) =>
        /\ UNCHANGED <<head, prev, next, index, mem, fault>>
        /\ Traversal' = Traversal]_vars

RemoveAbsentKeepsListWitness ==
    /\ last.op = "removeEntry"
    /\ last.arg \notin Range(Traversal)
    /\ last.msg
    /\ Len(Traversal) >= 2

\* C7: cleanList() on any list ends with isEmpty() true, and a traverseList
\* that follows visits no node.
CleanListEmpties ==
    /\ last.op = "cleanList" => (fault = "none" /\ isEmpty(Heap, head) /\ Traversal = <<>>)
    /\ (last.op = "traverseList" /\ last.follows) => last.out = <<>>

CleanListEmptiesWitness ==
    /\ last.op = "traverseList"
    /\ last.follows
    /\ Len(snap) >= 3
    /\ snap[1] = snap[2]

\* C8: insertEntry(v) followed at once by removeEntry(v) gives back the
\* traversal S the list had before, whether or not v occurs in S.
InsertRemoveRoundTrip ==
    (last.op = "removeEntry" /\ last.follows) =>
        /\ fault = "none"
        /\ Traversal = snap
        /\ Len(Traversal) = Len(snap)

InsertRemoveRoundTripWitness ==
    /\ last.op = "removeEntry"
    /\ last.follows
    /\ Len(snap) >= 2
    /\ last.arg \in Range(snap)
    /\ snap[1] # last.arg

\* C9: following next from the sentinel visits every live user node exactly
\* once and then comes back to the sentinel; no user node is the sentinel.
ChainVisitsEachOnce ==
    alive =>
        /\ Closed(Heap, head)
        /\ NoDup(ChainNodes)
        /\ head \notin Range(ChainNodes)
        /\ Range(ChainNodes) = LiveUser
        /\ Len(ChainNodes) = Cardinality(LiveUser)

ChainVisitsEachOnceWitness ==
    /\ alive
    /\ last.op = "insertEntryNode"
    /\ Len(ChainNodes) >= 3

\* C10: every node allocated by insertEntry(value) is deallocated exactly
\* once, by removeEntry, cleanList or the destructor: no node is freed twice,
\* no freed node can be reached from the sentinel, and once the list is
\* destroyed the only nodes still allocated are those the caller never
\* handed over.
FreedExactlyOnce ==
    /\ fault \notin {"double_free", "use_after_free"}
    /\ alive => \A n \in Range(ChainNodes) : mem[n]
    /\ ~alive => {n \in Nodes : mem[n]} = owned

FreedExactlyOnceWitness ==
    /\ ~alive
    /\ last.op = "~DoubleList"
    /\ Len(snap) >= 2

\* C11: destroying the list in any reachable state, empty or not, deallocates
\* every remaining user node first and the sentinel last; afterwards no node
\* allocated for the list is still allocated.
DtorFreesUsersThenSentinel ==
    /\ Usable =>
        LET D == DoubleListDtor(Heap, head)
        IN  /\ D.fault = "none"
            /\ D.freed = ChainNodes \o <<head>>
            /\ {n \in Nodes : D.mem[n]} = owned
    /\ ~alive =>
        /\ fault = "none"
        /\ ~mem[head]
        /\ \A n \in Nodes \ owned : ~mem[n]

DtorFreesUsersThenSentinelWitness ==
    /\ ~alive
    /\ last.op = "~DoubleList"
    /\ Len(snap) >= 3
    /\ ~mem[head]

\* The two logical states of the list.
Empty == isEmpty(Heap, head) /\ count = 0

NonEmpty == ~isEmpty(Heap, head) /\ count > 0

\* C12: the list is always in exactly one of the states Empty and Non-Empty.
\* It starts Empty; only an insert takes it from Empty to Non-Empty; only
\* removeEntry and cleanList take it from Non-Empty to Empty; removeEntry,
\* cleanList and traverseList on an Empty list leave it Empty; the destructor
\* can run from either state.
TwoStateMachine ==
    /\ Empty
    /\ [](alive => (Empty /\ ~NonEmpty) \/ (NonEmpty /\ ~Empty))
    /\ [](Usable => DoubleListDtor(Heap, head).fault = "none")
    /\ [][(alive /\ alive') =>
            /\ (Empty /\ NonEmpty') => last'.op \in {"insertEntry", "insertEntryNode"}
            /\ (NonEmpty /\ Empty') => last'.op \in {"removeEntry", "cleanList"}
            /\ (Empty /\ last'.op \in {"removeEntry", "cleanList", "traverseList"})
                    => Empty']_vars
    /\ [][(alive /\ ~alive') => last'.op = "~DoubleList"]_vars

TwoStateMachineWitness ==
    /\ alive
    /\ Empty
    /\ last.op = "cleanList"
    /\ Len(snap) >= 1

\* C13: a freshly constructed list has its sentinel linked to itself in both
\* directions, isEmpty() is true and traverseList visits no node.
FreshListSelfLinked ==
    last.op = "DoubleList" =>
        /\ alive
        /\ fault = "none"
        /\ mem[head]
        /\ next[head] = head
        /\ prev[head] = head
        /\ isEmpty(Heap, head)
        /\ Traversal = <<>>
        /\ traverseList(Heap, head).fault = "none"

FreshListSelfLinkedWitness ==
    /\ last.op = "DoubleList"
    /\ alive
    /\ mem[head]
    /\ LiveUser = {}

\* C14: isEmpty() and traverseList() change no link and no value of any node,
\* and a traverseList right after a traverseList prints the same values.
QueriesChangeNothing ==
    /\ [](last.op = "traverseList" =>
            /\ fault = "none"
            /\ traverseList(Heap, head).out = last.out)
    /\ [][last'.op \in {"isEmpty", "traverseList"} =>
            /\ UNCHANGED <<head, prev, next, index, mem>>
            /\ fault' = "none"
            /\ Traversal' = Traversal]_vars
    /\ [][(last.op = "traverseList" /\ last'.op = "traverseList") =>
            last'.out = last.out]_vars

QueriesChangeNothingWitness ==
    /\ last.op = "traverseList"
    /\ Len(last.out) >= 2
    /\ last.out[1] # last.out[2]
    /\ Traversal = last.out

\* The heap of a list that was just constructed with its sentinel at hd.
FreshList(hd) == DoubleListCtor(EmptyHeap, hd)

\* Heaps H1 and H2 hold the same list: they agree on every address that
\* is not a node the caller still keeps for itself.
SameList(H1, H2) ==
    \A n \in Nodes \ owned :
        /\ H1.mem[n] = H2.mem[n]
        /\ H1.prev[n] = H2.prev[n]
        /\ H1.next[n] = H2.next[n]
        /\ H1.index[n] = H2.index[n]

\* C15: cleanList() deallocates every user node and not the sentinel, and
\* leaves the sentinel linked to itself in both directions: the list is then
\* the list a constructor makes, so inserts and removes after cleanList act
\* as they do on a new list.
CleanListGivesFreshList ==
    /\ Usable =>
        LET Cn == cleanList(Heap, head)
        IN  /\ Cn.fault = "none"
            /\ Range(Cn.freed) = LiveUser
            /\ Len(Cn.freed) = Cardinality(LiveUser)
            /\ Cn.mem[head]
            /\ Cn.next[head] = head
            /\ Cn.prev[head] = head
            /\ SameList(Cn, FreshList(head))
    /\ last.op = "cleanList" =>
        /\ fault = "none"
        /\ mem[head]
        /\ next[head] = head
        /\ prev[head] = head
        /\ SameList(Heap, FreshList(head))
        /\ \A v \in Values :
            /\ removeEntry(Heap, head, v).msg = removeEntry(FreshList(head), head, v).msg
            /\ \A e \in FreeAddrs :
                /\ SameList(insertEntry(Heap, head, e, v),
                            insertEntry(FreshList(head), head, e, v))
                /\ traverseList(insertEntry(Heap, head, e, v), head).out = <<v>>

CleanListGivesFreshListWitness ==
    /\ last.op = "cleanList"
    /\ Len(snap) >= 2
    /\ snap[1] # snap[2]
    /\ next[head] = head

\* C16: removeEntry(v) prints "Cannot find index v" exactly when no live node
\* held v at the call; it is not printed after a removal, the removal of the
\* last remaining node or of the node next to the sentinel included.
NotFoundIffAbsent ==
    [][last'.op = "removeEntry" =>
        /\ fault' = "none"
        /\ last'.msg <=> (last'.arg \notin Range(Traversal))]_vars

NotFoundIffAbsentWitness ==
    /\ last.op = "removeEntry"
    /\ ~last.msg
    /\ last.arg = DefaultIndex
    /\ Traversal = <<>>
    /\ count = 0

\* The number of positions of s that hold v.
Occ(s, v) == Cardinality({i \in 1..Len(s) : s[i] = v})

\* C17: insertEntry(v) is never turned down because v is already in the list;
\* a value inserted k times and not removed occurs k times in the traversal.
DuplicatesAccepted ==
    /\ Usable =>
        \A v \in Values, e \in FreeAddrs :
            LET H2 == insertEntry(Heap, head, e, v)
            IN  /\ H2.fault = "none"
                /\ H2.mem[e]
                /\ Occ(traverseList(H2, head).out, v) = Occ(Traversal, v) + 1
    /\ last.op = "insertEntry" => Occ(Traversal, last.arg) = Occ(snap, last.arg) + 1
    /\ (alive /\ pureIns) => \A v \in Values : Occ(Traversal, v) = Occ(ins, v)

DuplicatesAcceptedWitness ==
    /\ last.op = "insertEntry"
    /\ pureIns
    /\ Occ(ins, last.arg) = 3
    /\ Occ(Traversal, last.arg) = 3

\* C18: insertEntry(Node*) with an unattached node that holds v gives the
\* chain and the traversal that insertEntry(v) gives when operator new
\* returns the node's address, and the node is from then on freed by the
\* list (removeEntry, cleanList, destructor) like any other node.
NodeInsertLikeValueInsert ==
    /\ Usable =>
        \A n \in owned :
            LET A == insertEntryNode(Heap, head, n)
                B == insertEntry(Delete(Heap, n), head, n, index[n])
            IN  /\ A.fault = "none"
                /\ B.fault = "none"
                /\ A.prev = B.prev
                /\ A.next = B.next
                /\ A.index = B.index
                /\ A.mem = B.mem
                /\ ChainOf(A, head) = <<n>> \o ChainNodes
                /\ traverseList(A, head).out = <<index[n]>> \o Traversal
                /\ traverseList(A, head).out = traverseList(B, head).out
    /\ last.op = "insertEntryNode" =>
        LET n == next[head]
        IN  /\ n \in LiveUser
            /\ ~DoubleListDtor(Heap, head).mem[n]
            /\ ~cleanList(Heap, head).mem[n]
            /\ ~removeEntry(Heap, head, index[n]).heap.mem[n]

NodeInsertLikeValueInsertWitness ==
    /\ last.op = "insertEntryNode"
    /\ Len(ChainNodes) = 2
    /\ index[ChainNodes[1]] = index[ChainNodes[2]]
    /\ owned = {}

\* C19: removeEntry, traverseList, cleanList and the destructor terminate:
\* each loop ends after at most one iteration per live node.
LoopsEndWithinLiveNodes ==
    /\ fault # "hang"
    /\ Usable =>
        LET k == Cardinality(LiveUser)
        IN  /\ \A v \in Values :
                removeLoop(Heap, head, head, next[head], v, k).heap.fault = "none"
            /\ traverseLoop(Heap, head, next[head], <<>>, k).fault = "none"
            /\ cleanLoop(Heap, head, head, next[head], k).fault = "none"
            /\ DoubleListDtor(Heap, head).fault = "none"
            /\ Len(DoubleListDtor(Heap, head).freed) = k + 1

LoopsEndWithinLiveNodesWitness ==
    /\ last.op = "removeEntry"
    /\ last.msg
    /\ count = 3
    /\ Len(Traversal) = 3
    /\ fault = "none"

\* C20: the sentinel's next is the sentinel exactly when the sentinel's prev
\* is the sentinel, so an emptiness test on prev agrees with isEmpty().
SentinelLinksAgree ==
    alive =>
        /\ (next[head] = head) <=> (prev[head] = head)
        /\ isEmpty(Heap, head) <=> (prev[head] = head)

SentinelLinksAgreeWitness ==
    /\ alive
    /\ last.op = "removeEntry"
    /\ ~last.msg
    /\ last.arg = 5
    /\ next[head] = head
    /\ prev[head] = head

\* C21: the sentinel is never taken for a data node although it holds the
\* default value -1: removeEntry(-1) never unlinks or frees the sentinel (it
\* removes a user node with value -1 if there is one, and reports not found
\* otherwise), and traverseList never prints the sentinel's value.
SentinelIsNoDataNode ==
    /\ alive => (mem[head] /\ index[head] = DefaultIndex)
    /\ Usable =>
        LET r == removeEntry(Heap, head, DefaultIndex)
            t == traverseList(Heap, head)
        IN  /\ r.heap.fault = "none"
            /\ r.heap.mem[head]
            /\ head \notin Range(r.heap.freed)
            /\ Closed(r.heap, head)
            /\ IF DefaultIndex \in Range(Traversal)
               THEN /\ ~r.msg
                    /\ Len(r.heap.freed) = 1
                    /\ r.heap.freed[1] \in LiveUser
                    /\ index[r.heap.freed[1]] = DefaultIndex
               ELSE /\ r.msg
                    /\ r.heap.freed = <<>>
            /\ Len(t.out) = Cardinality(LiveUser)
            /\ \A i \in 1..Len(t.out) : t.out[i] = index[ChainNodes[i]]
            /\ head \notin Range(ChainNodes)

SentinelIsNoDataNodeWitness ==
    /\ alive
    /\ last.op = "removeEntry"
    /\ last.arg = DefaultIndex
    /\ last.msg
    /\ Len(Traversal) >= 2
    /\ mem[head]

\* The nodes of the list: the sentinel and the live user nodes.
ListNodes == {head} \cup LiveUser

\* C22: an insert changes only the sentinel's next, the former head's prev
\* (the sentinel's prev when the list was empty) and the two links of the new
\* node; a successful removeEntry changes only the next of the removed node's
\* predecessor and the prev of its successor.  The value of every live node
\* and both links of every other live node stay as they were.
SpliceIsLocal ==
    /\ [][last'.op \in {"insertEntry", "insertEntryNode"} =>
            LET e == next'[head]
                a == next[head]
            IN  /\ e \notin ListNodes
                /\ next'[e] = a
                /\ prev'[e] = head
                /\ prev'[a] = e
                /\ \A n \in (ListNodes \cup owned) \ {e} :
                    /\ mem'[n]
                    /\ index'[n] = index[n]
                    /\ (n # head) => next'[n] = next[n]
                    /\ (n # a) => prev'[n] = prev[n]]_vars
    /\ [][(last'.op = "removeEntry" /\ last'.arg \in Range(Traversal)) =>
            LET r == ChainNodes[FirstPos(Traversal, last'.arg)]
                p == prev[r]
                s == next[r]
            IN  /\ next'[p] = s
                /\ prev'[s] = p
                /\ \A n \in (ListNodes \cup owned) \ {r} :
                    /\ mem'[n]
                    /\ index'[n] = index[n]
                    /\ (n # p) => next'[n] = next[n]
                    /\ (n # s) => prev'[n] = prev[n]]_vars

SpliceIsLocalWitness ==
    /\ last.op = "insertEntryNode"
    /\ Len(ChainNodes) >= 2
    /\ owned # {}
    /\ prev[head] # next[head]

\* Every call of list_delete logged in H was made with prev == entry->prev
\* and prev->next == entry.
CallsTrackPrev(H) ==
    \A i \in 1..Len(H.calls) :
        /\ H.calls[i].prv = H.calls[i].entryPrev
        /\ H.calls[i].prvNext = H.calls[i].entry

\* C30: whenever removeEntry or cleanList calls list_delete(prev, cur), the
\* tracked prev is cur->prev and prev->next is cur, so unlinking through the
\* tracked predecessor is unlinking through the node's own prev link.
DeleteGetsTruePrev ==
    Usable =>
        /\ \A v \in Values :
            LET r == removeEntry(Heap, head, v)
            IN  /\ CallsTrackPrev(r.heap)
                /\ (v \in Range(Traversal)) => Len(r.heap.calls) = 1
        /\ CallsTrackPrev(cleanList(Heap, head))
        /\ Len(cleanList(Heap, head).calls) = Cardinality(LiveUser)
        /\ CallsTrackPrev(DoubleListDtor(Heap, head))

DeleteGetsTruePrevWitness ==
    /\ last.op = "removeEntry"
    /\ ~last.msg
    /\ count = 2
    /\ Len(Traversal) = 2
    /\ last.arg \notin Range(Traversal)

----------------------------------------------------------------------------
(* The insertEntry overload for nodes, outside its precondition: the       *)
(* caller passes a node that is already linked in this list.               *)

\* The list as every call of the class leaves it: the chain is closed and
\* every node of the list is linked both ways.
WellFormed == Closed(Heap, head) /\ \A m \in ListNodes : Linked(Heap, m)

\* A usable list that a caller has damaged.
Misused == Usable /\ ~WellFormed

\* slist.insertEntry(n) for a node n that is linked in a well-formed list;
\* ret tells that n is the node right after the sentinel.
InsertEntryAttached ==
    /\ Usable
    /\ WellFormed
    /\ \E n \in Range(ChainNodes) :
        /\ SetHeap(insertEntryNode(Heap, head, n))
        /\ last' = Call("insertEntryAttached", DefaultIndex, <<>>, FALSE, n = next[head], FALSE)
    /\ snap' = Traversal
    /\ ins' = <<>>
    /\ pureIns' = FALSE
    /\ UNCHANGED <<head, alive, owned, count>>
    /\ UNCHANGED <<slvars, apvars>>

\* The caller of main's operations who at some point passes an attached
\* node, and then goes on to print or to clean the list.
NextMisuse ==
    \/ ~Misused /\ Next
    \/ InsertEntryAttached
    \/ Misused /\ TraverseList
    \/ Misused /\ CleanList

SpecMisuse == Init /\ [][NextMisuse]_vars

\* C23: insertEntry(Node*) does not check that the node is unattached.  Given
\* a node that is linked in the same list, the call completes without error
\* and leaves a chain that breaks n.prev.next = n = n.next.prev; when the node
\* is the current head node it becomes its own next.  From then on neither
\* traverseList nor cleanList gets to the sentinel.
AttachedInsertCorruptsList ==
    last.op = "insertEntryAttached" =>
        /\ fault = "none"
        /\ \E n \in ListNodes : ~Linked(Heap, n)
        /\ ~Closed(Heap, head)
        /\ last.ret => next[next[head]] = next[head]
        /\ traverseList(Heap, head).fault = "hang"
        /\ cleanList(Heap, head).fault \in {"hang", "use_after_free", "double_free"}

AttachedInsertCorruptsListWitness ==
    /\ last.op = "insertEntryAttached"
    /\ last.ret
    /\ Len(snap) >= 2
    /\ next[next[head]] = next[head]

----------------------------------------------------------------------------
(* The singly linked list with a sentinel (class SingleList).  Its Node    *)
(* has no prev field; the heap record keeps the shape of Heap with prev    *)
(* null everywhere, so that Deref, NewNodeAt and Delete serve both lists.  *)

SlHeap ==
    [prev |-> [n \in Nodes |-> NULL], next |-> sl_next, index |-> sl_index,
     mem |-> sl_mem, fault |-> sl_fault, freed |-> <<>>, calls |-> <<>>]

sl_isEnd(entry) == entry = NULL

sl_isEmpty(H, hd) == H.next[hd] = NULL

sl_list_add(H, hd, entry) ==
    IF Deref(H, hd) # "none" THEN Fail(H, Deref(H, hd))
    ELSE IF Deref(H, entry) # "none" THEN Fail(H, Deref(H, entry))
    ELSE
        LET H1 == [H EXCEPT !.next[entry] = H.next[hd]]
        IN  [H1 EXCEPT !.next[hd] = entry]

\* list_delete without the statement prev->next = entry->next.
sl_list_delete_noUnlink(H, prv, entry) ==
    IF Deref(H, entry) # "none" THEN Fail(H, Deref(H, entry))
    ELSE Delete([H EXCEPT !.next[entry] = NULL], entry)

sl_list_delete(H, prv, entry) ==
    IF Deref(H, entry) # "none" THEN Fail(H, Deref(H, entry))
    ELSE IF Deref(H, prv) # "none" THEN Fail(H, Deref(H, prv))
    ELSE
        LET H1 == [H EXCEPT !.next[prv] = H.next[entry]]
            H2 == [H1 EXCEPT !.next[entry] = NULL]
        IN  Delete(H2, entry)

RECURSIVE sl_cleanLoop(_, _, _, _, _)
sl_cleanLoop(H, hd, prv, cur, fuel) ==
    IF H.fault # "none" THEN H
    ELSE IF sl_isEnd(cur) THEN H
    ELSE IF fuel = 0 THEN Fail(H, "hang")
    ELSE
        LET H1 == sl_list_delete(H, prv, cur)
        IN  IF H1.fault # "none" THEN H1
            ELSE IF Deref(H1, hd) # "none" THEN Fail(H1, Deref(H1, hd))
            ELSE sl_cleanLoop(H1, hd, hd, H1.next[hd], fuel - 1)

sl_cleanList(H, hd) ==
    IF Deref(H, hd) # "none" THEN Fail(H, Deref(H, hd))
    ELSE IF sl_isEmpty(H, hd) THEN H
    ELSE sl_cleanLoop(H, hd, hd, H.next[hd], Fuel)

\* The loop of removeEntry without the break: it goes on after a match.
RECURSIVE sl_removeLoop_all(_, _, _, _, _)
sl_removeLoop_all(H, prv, cur, id, fuel) ==
    IF sl_isEnd(cur) THEN [heap |-> H, cur |-> cur]
    ELSE IF fuel = 0 THEN [heap |-> Fail(H, "hang"), cur |-> cur]
    ELSE IF Deref(H, cur) # "none" THEN [heap |-> Fail(H, Deref(H, cur)), cur |-> cur]
    ELSE IF H.index[cur] = id
         THEN sl_removeLoop_all(sl_list_delete(H, prv, cur), prv, H.next[cur], id, fuel - 1)
         ELSE sl_removeLoop_all(H, cur, H.next[cur], id, fuel - 1)

\* The result is the heap and the final value of cur.
RECURSIVE sl_removeLoop(_, _, _, _, _)
sl_removeLoop(H, prv, cur, id, fuel) ==
    IF sl_isEnd(cur) THEN [heap |-> H, cur |-> cur]
    ELSE IF fuel = 0 THEN [heap |-> Fail(H, "hang"), cur |-> cur]
    ELSE IF Deref(H, cur) # "none" THEN [heap |-> Fail(H, Deref(H, cur)), cur |-> cur]
    ELSE IF H.index[cur] = id THEN [heap |-> sl_list_delete(H, prv, cur), cur |-> cur]
    ELSE sl_removeLoop(H, cur, H.next[cur], id, fuel - 1)

\* After the loop, isEnd(cur) tests the address held in cur; when the loop
\* ended by break, cur holds the address of the deleted node, which is not
\* null.  msg tells that "Cannot find index" is printed.
sl_removeEntry(H, hd, id) ==
    IF Deref(H, hd) # "none" THEN [heap |-> Fail(H, Deref(H, hd)), msg |-> FALSE]
    ELSE
        LET r == sl_removeLoop(H, hd, H.next[hd], id, Fuel)
        IN  [heap |-> r.heap, msg |-> r.heap.fault = "none" /\ sl_isEnd(r.cur)]

\* The result is the sequence of values printed between "head-> " and "end".
RECURSIVE sl_traverseLoop(_, _, _, _)
sl_traverseLoop(H, each, acc, fuel) ==
    IF sl_isEnd(each) THEN [out |-> acc, fault |-> H.fault]
    ELSE IF fuel = 0 THEN [out |-> acc, fault |-> "hang"]
    ELSE IF Deref(H, each) # "none" THEN [out |-> acc, fault |-> Deref(H, each)]
    ELSE sl_traverseLoop(H, H.next[each], Append(acc, H.index[each]), fuel - 1)

sl_traverseList(H, hd) ==
    IF Deref(H, hd) # "none" THEN [out |-> <<>>, fault |-> Deref(H, hd)]
    ELSE sl_traverseLoop(H, H.next[hd], <<>>, Fuel)

\* SingleList() : head(new Node)
SingleListCtor(H, h) == NewNodeAt(H, h, DefaultIndex)

\* ~SingleList()
SingleListDtor(H, hd) ==
    LET H1 == sl_cleanList(H, hd)
    IN  IF H1.fault # "none" THEN H1
        ELSE IF Deref(H1, hd) # "none" THEN Fail(H1, Deref(H1, hd))
        ELSE Delete([H1 EXCEPT !.next[hd] = NULL], hd)

\* insertEntry(int index): e is the address operator new returns.
sl_insertEntry(H, hd, e, id) == sl_list_add(NewNodeAt(H, e, id), hd, e)

\* insertEntry(Node *entry)
sl_insertEntryNode(H, hd, entry) == sl_list_add(H, hd, entry)

----------------------------------------------------------------------------
(* The two list programs side by side: every call main() makes on one list *)
(* is made on the other with the same argument.  Each list lives in its    *)
(* own heap.  The two programs make the same sequence of new and delete    *)
(* expressions, so operator new is taken to return the same address in     *)
(* both; which address that is stays open.                                 *)

SlFreeAddrs == {n \in Nodes : ~sl_mem[n]}

SlTraversal == sl_traverseList(SlHeap, sl_head).out

SlSetHeap(H) ==
    /\ sl_next' = H.next
    /\ sl_index' = H.index
    /\ sl_mem' = H.mem
    /\ sl_fault' = H.fault

\* SingleList slist;  As for the DoubleList, the sentinel is taken to be
\* allocated at the first address of the empty heap.
SlInit ==
    \E h \in {NULL + 1} :
        LET H == SingleListCtor(EmptyHeap, h)
        IN  /\ sl_head = h
            /\ sl_next = H.next
            /\ sl_index = H.index
            /\ sl_mem = H.mem
            /\ sl_fault = H.fault
            /\ sl_alive = TRUE
            /\ sl_owned = {}
            /\ sl_last = Call("SingleList", DefaultIndex, <<>>, FALSE, FALSE, FALSE)

InitPair == DlInit /\ SlInit /\ ApIdle

BothUsable == Usable /\ sl_alive /\ sl_fault = "none"

\* insertEntry(v) on both lists
BothInsertEntry ==
    /\ BothUsable
    /\ \E v \in Values, e \in FreeAddrs \cap SlFreeAddrs :
        /\ SetHeap(insertEntry(Heap, head, e, v))
        /\ SlSetHeap(sl_insertEntry(SlHeap, sl_head, e, v))
        /\ last' = Call("insertEntry", v, <<>>, FALSE, FALSE, FALSE)
        /\ sl_last' = Call("insertEntry", v, <<>>, FALSE, FALSE, FALSE)
    /\ UNCHANGED <<head, alive, owned, snap, ins, pureIns, count>>
    /\ UNCHANGED <<sl_head, sl_alive, sl_owned, apvars>>

\* Node *n = new Node(v);  in both programs
BothNewNode ==
    /\ BothUsable
    /\ \E v \in Values, e \in FreeAddrs \cap SlFreeAddrs :
        /\ SetHeap(NewNodeAt(Heap, e, v))
        /\ SlSetHeap(NewNodeAt(SlHeap, e, v))
        /\ owned' = owned \cup {e}
        /\ sl_owned' = sl_owned \cup {e}
        /\ last' = Call("newNode", v, <<>>, FALSE, FALSE, FALSE)
        /\ sl_last' = Call("newNode", v, <<>>, FALSE, FALSE, FALSE)
    /\ UNCHANGED <<head, alive, snap, ins, pureIns, count>>
    /\ UNCHANGED <<sl_head, sl_alive, apvars>>

\* insertEntry(n) on both lists, for a node n the caller holds and has not
\* inserted
BothInsertEntryNode ==
    /\ BothUsable
    /\ \E n \in owned \cap sl_owned :
        /\ SetHeap(insertEntryNode(Heap, head, n))
        /\ SlSetHeap(sl_insertEntryNode(SlHeap, sl_head, n))
        /\ owned' = owned \ {n}
        /\ sl_owned' = sl_owned \ {n}
        /\ last' = Call("insertEntryNode", index[n], <<>>, FALSE, FALSE, FALSE)
        /\ sl_last' = Call("insertEntryNode", sl_index[n], <<>>, FALSE, FALSE, FALSE)
    /\ UNCHANGED <<head, alive, snap, ins, pureIns, count>>
    /\ UNCHANGED <<sl_head, sl_alive, apvars>>

\* removeEntry(v) on both lists
BothRemoveEntry ==
    /\ BothUsable
    /\ \E v \in Values :
        LET r == removeEntry(Heap, head, v)
            s == sl_removeEntry(SlHeap, sl_head, v)
        IN  /\ SetHeap(r.heap)
            /\ SlSetHeap(s.heap)
            /\ last' = Call("removeEntry", v, <<>>, r.msg, FALSE, FALSE)
            /\ sl_last' = Call("removeEntry", v, <<>>, s.msg, FALSE, FALSE)
    /\ UNCHANGED <<head, alive, owned, snap, ins, pureIns, count>>
    /\ UNCHANGED <<sl_head, sl_alive, sl_owned, apvars>>

\* cleanList() on both lists
BothCleanList ==
    /\ BothUsable
    /\ SetHeap(cleanList(Heap, head))
    /\ SlSetHeap(sl_cleanList(SlHeap, sl_head))
    /\ last' = Call("cleanList", DefaultIndex, <<>>, FALSE, FALSE, FALSE)
    /\ sl_last' = Call("cleanList", DefaultIndex, <<>>, FALSE, FALSE, FALSE)
    /\ UNCHANGED <<head, alive, owned, snap, ins, pureIns, count>>
    /\ UNCHANGED <<sl_head, sl_alive, sl_owned, apvars>>

\* traverseList() on both lists
BothTraverseList ==
    /\ BothUsable
    /\ LET r == traverseList(Heap, head)
           s == sl_traverseList(SlHeap, sl_head)
       IN  /\ fault' = r.fault
           /\ sl_fault' = s.fault
           /\ last' = Call("traverseList", DefaultIndex, r.out, FALSE, FALSE, FALSE)
           /\ sl_last' = Call("traverseList", DefaultIndex, s.out, FALSE, FALSE, FALSE)
    /\ UNCHANGED <<head, prev, next, index, mem, alive, owned, snap, ins, pureIns, count>>
    /\ UNCHANGED <<sl_head, sl_next, sl_index, sl_mem, sl_alive, sl_owned, apvars>>

\* isEmpty() on both lists
BothIsEmpty ==
    /\ BothUsable
    /\ last' = Call("isEmpty", DefaultIndex, <<>>, FALSE, isEmpty(Heap, head), FALSE)
    /\ sl_last' = Call("isEmpty", DefaultIndex, <<>>, FALSE, sl_isEmpty(SlHeap, sl_head), FALSE)
    /\ UNCHANGED <<head, prev, next, index, mem, fault, alive, owned, snap, ins, pureIns, count>>
    /\ UNCHANGED <<sl_head, sl_next, sl_index, sl_mem, sl_fault, sl_alive, sl_owned, apvars>>

\* Both lists go out of scope.
BothDestructor ==
    /\ BothUsable
    /\ SetHeap(DoubleListDtor(Heap, head))
    /\ SlSetHeap(SingleListDtor(SlHeap, sl_head))
    /\ alive' = FALSE
    /\ sl_alive' = FALSE
    /\ last' = Call("destructor", DefaultIndex, <<>>, FALSE, FALSE, FALSE)
    /\ sl_last' = Call("destructor", DefaultIndex, <<>>, FALSE, FALSE, FALSE)
    /\ UNCHANGED <<head, owned, snap, ins, pureIns, count>>
    /\ UNCHANGED <<sl_head, sl_owned, apvars>>

NextPair ==
    \/ BothInsertEntry
    \/ BothNewNode
    \/ BothInsertEntryNode
    \/ BothRemoveEntry
    \/ BothCleanList
    \/ BothTraverseList
    \/ BothIsEmpty
    \/ BothDestructor

SpecPair == InitPair /\ [][NextPair]_vars

----------------------------------------------------------------------------
(* Properties of SingleList, and of the two lists together.                *)

\* The addresses met by following next from the sentinel's next, up to a
\* null pointer or MaxNodes addresses, whichever comes first.
SlChainOf(H, hd) == Walk(H, NULL, H.next[hd], <<>>, MaxNodes)

SlChainNodes == SlChainOf(SlHeap, sl_head)

\* The chain of H ends in a null pointer: every node on it is allocated (a
\* pointer to a deleted node is a dangling end, not a null one) and the next
\* of its last node is nullptr.
SlEndsNull(H, hd) ==
    LET c == SlChainOf(H, hd)
    IN  /\ hd # NULL
        /\ H.mem[hd]
        /\ \A i \in 1..Len(c) : H.mem[c[i]]
        /\ NULL = (IF c = <<>> THEN H.next[hd] ELSE H.next[c[Len(c)]])

\* The allocated nodes of the SingleList other than the sentinel.
SlLiveUser == {n \in Nodes : sl_mem[n]} \ ({sl_head} \cup sl_owned)

\* C24: while the SingleList exists, its chain from head->next ends in
\* nullptr, meets no node twice and holds exactly the live nodes of the list;
\* isEmpty() is true exactly when no node is live; cleanList returns normally,
\* frees every node and leaves isEmpty() true.  The destructor leaves no node
\* of the list allocated.
NullEndedChain ==
    /\ sl_fault = "none"
    /\ sl_alive =>
        /\ sl_mem[sl_head]
        /\ SlEndsNull(SlHeap, sl_head)
        /\ NoDup(SlChainNodes)
        /\ Range(SlChainNodes) = SlLiveUser
        /\ sl_isEmpty(SlHeap, sl_head) <=> SlLiveUser = {}
        /\ LET H == sl_cleanList(SlHeap, sl_head)
           IN  /\ H.fault = "none"
               /\ sl_isEmpty(H, sl_head)
               /\ Range(H.freed) = SlLiveUser
        /\ sl_last.op = "cleanList" => sl_isEmpty(SlHeap, sl_head) /\ SlLiveUser = {}
    /\ ~sl_alive => \A n \in Nodes \ sl_owned : ~sl_mem[n]

NullEndedChainWitness ==
    /\ sl_last.op = "removeEntry"
    /\ ~sl_last.msg
    /\ Len(SlChainNodes) = 2
    /\ ~sl_isEmpty(SlHeap, sl_head)

\* C25: after every step of the same sequence of insertEntry(v),
\* removeEntry(v) and cleanList calls on a fresh SingleList and a fresh
\* DoubleList, both print the same values in the same order, both give the
\* same isEmpty(), and removeEntry printed "Cannot find index" on both or
\* on neither.
ListsObservablyEqual ==
    /\ fault = "none"
    /\ sl_fault = "none"
    /\ alive = sl_alive
    /\ alive =>
        /\ Traversal = SlTraversal
        /\ isEmpty(Heap, head) = sl_isEmpty(SlHeap, sl_head)
    /\ last.op # "DoubleList" =>
        /\ sl_last.op = last.op
        /\ sl_last.arg = last.arg
        /\ sl_last.msg = last.msg
        /\ sl_last.out = last.out
        /\ sl_last.ret = last.ret

ListsObservablyEqualWitness ==
    /\ last.op = "removeEntry"
    /\ ~last.msg
    /\ ~sl_last.msg
    /\ Len(Traversal) = 2
    /\ Traversal[1] # Traversal[2]
    /\ last.arg \in Range(SlTraversal)

----------------------------------------------------------------------------
(* The two lists with a caller who passes insertEntry a node that is       *)
(* linked in the list already, and then prints or cleans the lists.        *)

\* The SingleList as every call of the class leaves it.
SlWellFormed ==
    /\ SlEndsNull(SlHeap, sl_head)
    /\ NoDup(SlChainNodes)
    /\ Range(SlChainNodes) = SlLiveUser

\* Usable lists that a caller has damaged.
PairMisused == BothUsable /\ ~(WellFormed /\ SlWellFormed)

\* insertEntry(n) on both lists for a node n that is linked in both
BothInsertEntryAttached ==
    /\ BothUsable
    /\ WellFormed
    /\ SlWellFormed
    /\ \E n \in Range(ChainNodes) \cap Range(SlChainNodes) :
        /\ SetHeap(insertEntryNode(Heap, head, n))
        /\ SlSetHeap(sl_insertEntryNode(SlHeap, sl_head, n))
        /\ last' = Call("insertEntryAttached", index[n], <<>>, FALSE, n = next[head], FALSE)
        /\ sl_last' = Call("insertEntryAttached", sl_index[n], <<>>, FALSE, n = sl_next[sl_head], FALSE)
    /\ UNCHANGED <<head, alive, owned, snap, ins, pureIns, count>>
    /\ UNCHANGED <<sl_head, sl_alive, sl_owned, apvars>>

NextPairMisuse ==
    \/ ~PairMisused /\ NextPair
    \/ BothInsertEntryAttached
    \/ PairMisused /\ BothTraverseList
    \/ PairMisused /\ BothCleanList

SpecPairMisuse == InitPair /\ [][NextPairMisuse]_vars

----------------------------------------------------------------------------
(* The hand-written smart pointers Auto_ptr1 .. Auto_ptr4.  A smart        *)
(* pointer object is a slot in 1..MaxObjs, a Resource is an address in     *)
(* 1..MaxRes.  new Resource returns any address that holds no Resource:    *)
(* the address of a deleted Resource, or one that was never handed out     *)
(* (these being alike, the first of them).                                 *)

\* Number of smart pointer objects that exist at once.
MaxObjs == 3

\* Number of Resource addresses.
MaxRes == 2

Objs == 1..MaxObjs

Resources == 1..MaxRes

Classes == {"Auto_ptr1", "Auto_ptr2", "Auto_ptr3", "Auto_ptr4"}

\* The smart pointers and the Resources as one value, so that the member
\* functions are functions on it.
ApState == [live |-> ap_live, ptr |-> ap_ptr, res |-> res, fault |-> ap_fault]

\* The addresses new Resource can return in state S.
NewAddrs(S) ==
    {r \in Resources : S.res[r] = "deleted"}
    \cup {r \in Resources : /\ S.res[r] = "unalloc"
                            /\ \A q \in Resources : q < r => S.res[q] # "unalloc"}

\* new T at address r
ap_new(S, r) == [S EXCEPT !.res[r] = "live"]

\* delete p
ap_delete(S, p) ==
    IF S.fault # "none" THEN S
    ELSE IF p = NULL THEN S
    ELSE IF S.res[p] # "live" THEN [S EXCEPT !.fault = "double_delete"]
    ELSE [S EXCEPT !.res[p] = "deleted"]

\* Auto_ptrN(T* ptr = nullptr), the same in the four classes
Auto_ptr_ctor(S, o, p) == [S EXCEPT !.live[o] = TRUE, !.ptr[o] = p]

\* ~Auto_ptrN(), the same in the four classes: delete m_ptr.  The object is
\* gone afterwards, its slot holds no pointer.
Auto_ptr_dtor(S, o) ==
    LET S1 == ap_delete(S, S.ptr[o])
    IN  IF S1.fault # "none" THEN S1
        ELSE [S1 EXCEPT !.live[o] = FALSE, !.ptr[o] = NULL]

\* A copy constructor for Auto_ptr1 that takes the pointer away from a.
Auto_ptr1_copy_move(S, o, a) ==
    [S EXCEPT !.live[o] = TRUE, !.ptr[o] = S.ptr[a], !.ptr[a] = NULL]

\* Auto_ptr1 declares no copy constructor: the implicit one copies m_ptr.
Auto_ptr1_copy(S, o, a) == [S EXCEPT !.live[o] = TRUE, !.ptr[o] = S.ptr[a]]

\* Auto_ptr1 declares no assignment: the implicit one copies m_ptr.
Auto_ptr1_assign(S, o, a) == [S EXCEPT !.ptr[o] = S.ptr[a]]

\* The copy constructor of Auto_ptr2 without a.m_ptr = nullptr.
Auto_ptr2_copy_shared(S, o, a) == [S EXCEPT !.live[o] = TRUE, !.ptr[o] = S.ptr[a]]

\* Auto_ptr2(Auto_ptr2& a)
Auto_ptr2_copy(S, o, a) ==
    LET S1 == [S EXCEPT !.live[o] = TRUE, !.ptr[o] = S.ptr[a]]
    IN  [S1 EXCEPT !.ptr[a] = NULL]

\* operator= of Auto_ptr2 without delete m_ptr.
Auto_ptr2_assign_noDelete(S, o, a) ==
    IF a = o THEN S
    ELSE
        LET S2 == [S EXCEPT !.ptr[o] = S.ptr[a]]
        IN  [S2 EXCEPT !.ptr[a] = NULL]

\* Auto_ptr2& operator=(Auto_ptr2& a)
Auto_ptr2_assign(S, o, a) ==
    IF a = o THEN S
    ELSE
        LET S1 == ap_delete(S, S.ptr[o])
        IN  IF S1.fault # "none" THEN S1
            ELSE
                LET S2 == [S1 EXCEPT !.ptr[o] = S1.ptr[a]]
                IN  [S2 EXCEPT !.ptr[a] = NULL]

\* Auto_ptr3(const Auto_ptr3& a): r is the address new T returns.  T is
\* Resource, a class without members: *m_ptr = *a.m_ptr copies nothing and
\* reads or writes no byte, whatever a.m_ptr is.
Auto_ptr3_copy(S, o, a, r) ==
    [ap_new(S, r) EXCEPT !.live[o] = TRUE, !.ptr[o] = r]

\* The copy assignment of Auto_ptr3 without the self-assignment detection.
Auto_ptr3_assign_noSelfCheck(S, o, a, r) ==
    LET S1 == ap_delete(S, S.ptr[o])
    IN  IF S1.fault # "none" THEN S1
        ELSE
            [ap_new(S1, r) EXCEPT !.ptr[o] = r]

\* Auto_ptr3& operator=(const Auto_ptr3& a): r is the address new T returns.
Auto_ptr3_assign(S, o, a, r) ==
    IF a = o THEN S
    ELSE
        LET S1 == ap_delete(S, S.ptr[o])
        IN  IF S1.fault # "none" THEN S1
            ELSE
                [ap_new(S1, r) EXCEPT !.ptr[o] = r]

\* Auto_ptr4(const Auto_ptr4& a)
Auto_ptr4_copy(S, o, a, r) ==
    [ap_new(S, r) EXCEPT !.live[o] = TRUE, !.ptr[o] = r]

\* Auto_ptr4(Auto_ptr4&& a)
Auto_ptr4_move(S, o, a) ==
    LET S1 == [S EXCEPT !.live[o] = TRUE, !.ptr[o] = S.ptr[a]]
    IN  [S1 EXCEPT !.ptr[a] = NULL]

\* Auto_ptr4& operator=(const Auto_ptr4& a)
Auto_ptr4_assign(S, o, a, r) ==
    IF a = o THEN S
    ELSE
        LET S1 == ap_delete(S, S.ptr[o])
        IN  IF S1.fault # "none" THEN S1
            ELSE
                [ap_new(S1, r) EXCEPT !.ptr[o] = r]

\* Auto_ptr4& operator=(Auto_ptr4&& a)
Auto_ptr4_moveAssign(S, o, a) ==
    IF a = o THEN S
    ELSE
        LET S1 == ap_delete(S, S.ptr[o])
        IN  IF S1.fault # "none" THEN S1
            ELSE
                LET S2 == [S1 EXCEPT !.ptr[o] = S1.ptr[a]]
                IN  [S2 EXCEPT !.ptr[a] = NULL]

\* bool isNull() const
isNull(S, o) == S.ptr[o] = NULL

\* Copy construction and copy assignment as the class of the objects
\* defines them.
CopyCtor(c, S, o, a, r) ==
    CASE c = "Auto_ptr1" -> Auto_ptr1_copy(S, o, a)
      [] c = "Auto_ptr2" -> Auto_ptr2_copy(S, o, a)
      [] c = "Auto_ptr3" -> Auto_ptr3_copy(S, o, a, r)
      [] c = "Auto_ptr4" -> Auto_ptr4_copy(S, o, a, r)

CopyAssign(c, S, o, a, r) ==
    CASE c = "Auto_ptr1" -> Auto_ptr1_assign(S, o, a)
      [] c = "Auto_ptr2" -> Auto_ptr2_assign(S, o, a)
      [] c = "Auto_ptr3" -> Auto_ptr3_assign(S, o, a, r)
      [] c = "Auto_ptr4" -> Auto_ptr4_assign(S, o, a, r)

\* The classes whose copy operations allocate a Resource.
DeepCopy == {"Auto_ptr3", "Auto_ptr4"}

----------------------------------------------------------------------------
(* A function body that declares smart pointers of one class, copies and   *)
(* assigns them and lets them go out of scope, in any order.               *)

LiveObjs == {o \in Objs : ap_live[o]}

FreeObjs == Objs \ LiveObjs

\* An operation on smart pointers: dst is the object it is called on, src
\* its argument (NULL: none), old the pointer dst held before.
ApCall(op, dst, src, old) == [op |-> op, dst |-> dst, src |-> src, old |-> old]

ApSet(S) ==
    /\ ap_live' = S.live
    /\ ap_ptr' = S.ptr
    /\ res' = S.res
    /\ ap_fault' = S.fault

\* The program with the DoubleList has not been started.
DlIdle ==
    /\ head = NULL
    /\ prev = EmptyHeap.prev
    /\ next = EmptyHeap.next
    /\ index = EmptyHeap.index
    /\ mem = EmptyHeap.mem
    /\ fault = "none"
    /\ alive = FALSE
    /\ owned = {}
    /\ last = "none"
    /\ snap = <<>>
    /\ ins = <<>>
    /\ pureIns = FALSE
    /\ count = 0

\* No object is declared and no Resource allocated yet.
ApInit ==
    /\ ap_class \in Classes
    /\ ap_live = [o \in Objs |-> FALSE]
    /\ ap_ptr = [o \in Objs |-> NULL]
    /\ res = [r \in Resources |-> "unalloc"]
    /\ ap_fault = "none"
    /\ ap_last = ApCall("start", NULL, NULL, NULL)

InitPtr == DlIdle /\ SlIdle /\ ApInit

ApUsable == ap_fault = "none"

\* Auto_ptrN<Resource> o(new Resource);  or  Auto_ptrN<Resource> o;
Construct ==
    /\ ApUsable
    /\ \E o \in FreeObjs, r \in NewAddrs(ApState) \cup {NULL} :
        /\ ApSet(IF r # NULL THEN Auto_ptr_ctor(ap_new(ApState, r), o, r)
                              ELSE Auto_ptr_ctor(ApState, o, NULL))
        /\ ap_last' = ApCall("construct", o, NULL, NULL)
    /\ UNCHANGED <<ap_class, dlvars, slvars>>

\* Auto_ptrN<Resource> o(a);
CopyConstruct ==
    /\ ApUsable
    /\ \E o \in FreeObjs, a \in LiveObjs :
        \E r \in (IF ap_class \in DeepCopy THEN NewAddrs(ApState) ELSE {NULL}) :
            /\ ApSet(CopyCtor(ap_class, ApState, o, a, r))
            /\ ap_last' = ApCall("copy", o, a, NULL)
    /\ UNCHANGED <<ap_class, dlvars, slvars>>

\* Auto_ptr4<Resource> o(std::move(a));
MoveConstruct ==
    /\ ApUsable
    /\ ap_class = "Auto_ptr4"
    /\ \E o \in FreeObjs, a \in LiveObjs :
        /\ ApSet(Auto_ptr4_move(ApState, o, a))
        /\ ap_last' = ApCall("move", o, a, NULL)
    /\ UNCHANGED <<ap_class, dlvars, slvars>>

\* o = a;  with a an l-value, o itself included.  A deep copy runs new T
\* after delete m_ptr, so new can return the address just deleted.
Assign ==
    /\ ApUsable
    /\ \E o \in LiveObjs, a \in LiveObjs :
        \E r \in (IF ap_class \in DeepCopy /\ a # o
                  THEN NewAddrs(ap_delete(ApState, ap_ptr[o]))
                  ELSE {NULL}) :
            /\ ApSet(CopyAssign(ap_class, ApState, o, a, r))
            /\ ap_last' = ApCall("assign", o, a, ap_ptr[o])
    /\ UNCHANGED <<ap_class, dlvars, slvars>>

\* o = std::move(a);  o itself included
MoveAssign ==
    /\ ApUsable
    /\ ap_class = "Auto_ptr4"
    /\ \E o \in LiveObjs, a \in LiveObjs :
        /\ ApSet(Auto_ptr4_moveAssign(ApState, o, a))
        /\ ap_last' = ApCall("moveAssign", o, a, ap_ptr[o])
    /\ UNCHANGED <<ap_class, dlvars, slvars>>

\* o goes out of scope.
Destroy ==
    /\ ApUsable
    /\ \E o \in LiveObjs :
        /\ ApSet(Auto_ptr_dtor(ApState, o))
        /\ ap_last' = ApCall("destroy", o, NULL, ap_ptr[o])
    /\ UNCHANGED <<ap_class, dlvars, slvars>>

NextPtr ==
    \/ Construct
    \/ CopyConstruct
    \/ MoveConstruct
    \/ Assign
    \/ MoveAssign
    \/ Destroy

SpecPtr == InitPtr /\ [][NextPtr]_vars

----------------------------------------------------------------------------
(* Properties of the smart pointers.                                       *)

\* S with every object of the set objs destroyed, one after the other.
RECURSIVE DestroyAll(_, _)
DestroyAll(S, objs) ==
    IF objs = {} THEN S
    ELSE LET o == CHOOSE x \in objs : TRUE
         IN  DestroyAll(Auto_ptr_dtor(S, o), objs \ {o})

\* T is the state after a = b took b's pointer over: the Resource a held is
\* deleted, a holds what b held, b is null, and nothing else has changed.
TransfersOwnership(T, a, b) ==
    /\ T.fault = "none"
    /\ T.ptr[a] = ap_ptr[b]
    /\ T.ptr[b] = NULL
    /\ isNull(T, b)
    /\ isNull(T, a) <=> isNull(ApState, b)
    /\ ap_ptr[a] # NULL => res[ap_ptr[a]] = "live" /\ T.res[ap_ptr[a]] = "deleted"
    /\ \A r \in Resources \ {ap_ptr[a]} : T.res[r] = res[r]
    /\ \A o \in Objs \ {a, b} : T.ptr[o] = ap_ptr[o]
    /\ T.live = ap_live
    /\ \A o \in LiveObjs \ {a} : ~isNull(T, a) => T.ptr[o] # T.ptr[a]

\* C26: for two distinct objects a and b, the assignment a = b of Auto_ptr2
\* and the move assignment a = std::move(b) of Auto_ptr4 delete the Resource
\* a held, make a hold the pointer b held and leave b null; a is null
\* afterwards exactly when b was null before; no other object holds a's
\* pointer.
AssignTransfersOwnership ==
    ApUsable =>
        \A a, b \in LiveObjs : a # b =>
            /\ ap_class = "Auto_ptr2" => TransfersOwnership(Auto_ptr2_assign(ApState, a, b), a, b)
            /\ ap_class = "Auto_ptr4" => TransfersOwnership(Auto_ptr4_moveAssign(ApState, a, b), a, b)

AssignTransfersOwnershipWitness ==
    /\ ap_class = "Auto_ptr2"
    /\ ap_last.op = "assign"
    /\ ap_last.dst # ap_last.src
    /\ ap_last.old # NULL
    /\ res[ap_last.old] = "deleted"
    /\ ~isNull(ApState, ap_last.dst)
    /\ isNull(ApState, ap_last.src)

\* C27: with every Resource given to one constructor only, no two live
\* Auto_ptr2 objects hold the same non-null pointer, every pointer held
\* points to a live Resource and every live Resource is held; no delete
\* ever hits a deleted Resource, and destroying the live objects deletes
\* every Resource that is still live.
UniqueOwnership ==
    ap_class = "Auto_ptr2" =>
        /\ ap_fault = "none"
        /\ \A a, b \in LiveObjs : (a # b /\ ap_ptr[a] # NULL) => ap_ptr[a] # ap_ptr[b]
        /\ \A o \in LiveObjs : ap_ptr[o] # NULL => res[ap_ptr[o]] = "live"
        /\ \A r \in Resources : res[r] = "live" => \E o \in LiveObjs : ap_ptr[o] = r
        /\ LET T == DestroyAll(ApState, LiveObjs)
           IN  /\ T.fault = "none"
               /\ \A r \in Resources : T.res[r] # "live"
               /\ \A r \in Resources : res[r] = "live" => T.res[r] = "deleted"

UniqueOwnershipWitness ==
    /\ ap_class = "Auto_ptr2"
    /\ ap_last.op = "copy"
    /\ ~isNull(ApState, ap_last.dst)
    /\ isNull(ApState, ap_last.src)
    /\ Cardinality(LiveObjs) = MaxObjs
    /\ \E r \in Resources : res[r] = "deleted"

\* C28: initialising an Auto_ptr1 from another leaves both with the same
\* pointer; when that is a live Resource, the first of the two destructors
\* deletes it and the second deletes it again.  A delete of a deleted
\* Resource comes from a destructor only.
ShallowCopyDeletesTwice ==
    ap_class = "Auto_ptr1" =>
        /\ (ap_last.op = "copy" /\ ApUsable) =>
            /\ ap_live[ap_last.dst] /\ ap_live[ap_last.src]
            /\ ap_ptr[ap_last.dst] = ap_ptr[ap_last.src]
            /\ (ap_ptr[ap_last.src] # NULL /\ res[ap_ptr[ap_last.src]] = "live") =>
                LET S1 == Auto_ptr_dtor(ApState, ap_last.dst)
                    S2 == Auto_ptr_dtor(S1, ap_last.src)
                IN  /\ S1.fault = "none"
                    /\ S1.res[ap_ptr[ap_last.src]] = "deleted"
                    /\ S1.ptr[ap_last.src] = ap_ptr[ap_last.src]
                    /\ S2.fault = "double_delete"
        /\ ap_fault # "none" =>
            /\ ap_fault = "double_delete"
            /\ ap_last.op = "destroy"
            /\ res[ap_ptr[ap_last.dst]] = "deleted"

ShallowCopyDeletesTwiceWitness ==
    /\ ap_class = "Auto_ptr1"
    /\ ap_fault = "double_delete"
    /\ ap_last.op = "destroy"
    /\ Cardinality(LiveObjs) = 1

\* C29: assigning a smart pointer of class Auto_ptr2, Auto_ptr3 or
\* Auto_ptr4 to itself (for Auto_ptr4 by copy and by move) deletes nothing
\* and changes no pointer: the state after is the state before.
SelfAssignIsNoOp ==
    (ApUsable /\ ap_class # "Auto_ptr1") =>
        /\ \A o \in LiveObjs, r \in Resources :
            /\ CopyAssign(ap_class, ApState, o, o, r) = ApState
            /\ ap_class = "Auto_ptr4" => Auto_ptr4_moveAssign(ApState, o, o) = ApState
        /\ (ap_last.op \in {"assign", "moveAssign"} /\ ap_last.dst = ap_last.src) =>
            /\ ap_ptr[ap_last.dst] = ap_last.old
            /\ ap_last.old # NULL => res[ap_last.old] = "live"

SelfAssignIsNoOpWitness ==
    /\ ap_class = "Auto_ptr3"
    /\ ap_last.op = "assign"
    /\ ap_last.dst = ap_last.src
    /\ ap_last.old # NULL
    /\ ap_ptr[ap_last.dst] = ap_last.old
    /\ res[ap_last.old] = "live"

====
